---- MODULE Spec2Model ----
(***************************************************************************)
(* Model of the watched-interval tracker of video-track-FE                 *)
(* (src/src/hooks/useVideoProgress.ts, driven by                           *)
(* src/src/components/VideoPlayer.tsx).                                    *)
(*                                                                         *)
(* Units.  Video times are integers counting steps of 0.05 s, so that the  *)
(* source's 0.1 s merge tolerance is 2, its 1 s minimum watch time is 20   *)
(* and its 10 s skip threshold is 200.  Wall-clock times are milliseconds. *)
(* A percentage is an exact fraction [num, den] in lowest terms; the       *)
(* source computes it in IEEE doubles, whose rounding is not modelled.     *)
(***************************************************************************)
EXTENDS Integers, Sequences, FiniteSets, TLC

\* ------------------------------------------------------------------------
\* Program constants
\* ------------------------------------------------------------------------
PROGRESS_UPDATE_INTERVAL == 5000
UI_UPDATE_INTERVAL == 1000
MINIMUM_WATCH_TIME == 20
SKIP_THRESHOLD == 200
MERGE_TOLERANCE == 2
\* the literal 99.5 of calculateProgress, in tenths of a percent
LATCH_THRESHOLD == 995
\* the gap below which README.md says two intervals are merged (1 s)
README_MERGE_GAP == 20

\* ------------------------------------------------------------------------
\* Bounds of the model
\* ------------------------------------------------------------------------
MaxEvents == 3
MaxTicks == 1
MaxFetches == 2
MaxSaves == 2
MaxRaw == 2

None == [none |-> TRUE]

\* ------------------------------------------------------------------------
\* Numbers
\* ------------------------------------------------------------------------
Min(a, b) == IF a <= b THEN a ELSE b
Max(a, b) == IF a >= b THEN a ELSE b
Abs(a) == IF a < 0 THEN 0 - a ELSE a

RECURSIVE GCD(_, _)
GCD(a, b) == IF b = 0 THEN a ELSE GCD(b, a % b)

\* the fraction n/d (d > 0) in lowest terms
Frac(n, d) == LET g == GCD(Abs(n), d) IN [num |-> n \div g, den |-> d \div g]
Pct0 == [num |-> 0, den |-> 1]
Pct100 == [num |-> 100, den |-> 1]
PctLeq(p, q) == p.num * q.den <= q.num * p.den

\* ------------------------------------------------------------------------
\* calculateProgress: filter, sort, clamp, merge, sum
\* ------------------------------------------------------------------------
Interval(s, e) == [start |-> s, end |-> e]
Span(i) == i.end - i.start

\* the filter of validIntervals
IsValidInterval(i, d) ==
    /\ ~(i.end <= i.start)
    /\ ~(i.start >= d)
    /\ ~(i.end - i.start < MINIMUM_WATCH_TIME)
    /\ ~(i.end - i.start > d)

ValidIntervals(ints, d) == SelectSeq(ints, LAMBDA i : IsValidInterval(i, d))

\* Array.prototype.sort with (a, b) => a.start - b.start: a stable sort
RECURSIVE InsertByStart(_, _)
InsertByStart(sorted, i) ==
    IF sorted = << >> THEN << i >>
    ELSE IF sorted[Len(sorted)].start <= i.start THEN Append(sorted, i)
    ELSE Append(InsertByStart(SubSeq(sorted, 1, Len(sorted) - 1), i),
                sorted[Len(sorted)])

\* faulty variant: the sort is left out
SortByStartSkipped(ints) == ints

RECURSIVE SortByStart(_)
SortByStart(ints) ==
    IF ints = << >> THEN << >>
    ELSE InsertByStart(SortByStart(SubSeq(ints, 1, Len(ints) - 1)),
                       ints[Len(ints)])

\* faulty variant: the interval is not clamped
ClampIntervalSkipped(i, d) == i

ClampInterval(i, d) == Interval(Max(0, i.start), Min(d, i.end))

\* faulty variant: the tolerance is left out
MergesIntoNoTolerance(c, last) == c.start <= last.end

\* faulty variant: the comparison is strict
MergesIntoStrict(c, last) == c.start < last.end + MERGE_TOLERANCE

\* the test that folds the next interval into the running last one
MergesInto(c, last) == c.start <= last.end + MERGE_TOLERANCE

\* one iteration of the for-loop over the sorted valid intervals
MergeStep(merged, i, d) ==
    LET c == ClampInterval(i, d)
        n == Len(merged)
    IN  IF n = 0 THEN << c >>
        ELSE IF MergesInto(c, merged[n])
             THEN [merged EXCEPT ![n].end = Max(merged[n].end, c.end)]
             ELSE Append(merged, c)

RECURSIVE MergeFold(_, _, _)
MergeFold(merged, sorted, d) ==
    IF sorted = << >> THEN merged
    ELSE MergeFold(MergeStep(merged, Head(sorted), d), Tail(sorted), d)

\* mergedIntervals of calculateProgress for the interval list ints
MergeIntervals(ints, d) == MergeFold(<< >>, SortByStart(ValidIntervals(ints, d)), d)

\* faulty variant: the operands of the span are swapped
RECURSIVE TotalSpanSwapped(_)
TotalSpanSwapped(ints) ==
    IF ints = << >> THEN 0
    ELSE (Head(ints).start - Head(ints).end) + TotalSpanSwapped(Tail(ints))

RECURSIVE TotalSpan(_)
TotalSpan(ints) ==
    IF ints = << >> THEN 0 ELSE Span(Head(ints)) + TotalSpan(Tail(ints))

\* Math.min((totalWatched / duration) * 100, 100)
Percentage(total, d) ==
    IF total >= d THEN Pct100 ELSE Frac(total * 100, d)

\* percentage >= 99.5
ReachesLatchThreshold(p) == p.num * 10 >= LATCH_THRESHOLD * p.den

\* faulty variant: the latch does not short-circuit the computation
CalculateProgressRecomputes(ints, d, skip, latch, total) ==
    IF d = 0
    THEN [ret |-> Pct0, total |-> total, latch |-> latch, merged |-> << >>,
          d |-> d, latchBefore |-> latch]
    ELSE LET merged == MergeIntervals(ints, d)
             tw == TotalSpan(merged)
             pct == Percentage(tw, d)
         IN  IF ReachesLatchThreshold(pct) /\ ~skip
             THEN [ret |-> Pct100, total |-> tw, latch |-> TRUE,
                   merged |-> merged, d |-> d, latchBefore |-> latch]
             ELSE [ret |-> pct, total |-> tw, latch |-> latch,
                   merged |-> merged, d |-> d, latchBefore |-> latch]

\* One call of calculateProgress for the interval list ints, with the
\* duration d and the skip flag skip of the closure that runs it, the latch
\* ref and the previous totalWatchedRef.  ret is the value returned, total
\* and latch are the refs after the call, merged is the local
\* mergedIntervals (<< >> when the call returns before the merge).
CalculateProgress(ints, d, skip, latch, total) ==
    IF d = 0
    THEN [ret |-> Pct0, total |-> total, latch |-> latch, merged |-> << >>,
          d |-> d, latchBefore |-> latch]
    ELSE IF latch
    THEN [ret |-> Pct100, total |-> total, latch |-> latch, merged |-> << >>,
          d |-> d, latchBefore |-> latch]
    ELSE LET merged == MergeIntervals(ints, d)
             tw == TotalSpan(merged)
             pct == Percentage(tw, d)
         IN  IF ReachesLatchThreshold(pct) /\ ~skip
             THEN [ret |-> Pct100, total |-> tw, latch |-> TRUE,
                   merged |-> merged, d |-> d, latchBefore |-> latch]
             ELSE [ret |-> pct, total |-> tw, latch |-> latch,
                   merged |-> merged, d |-> d, latchBefore |-> latch]


\* ------------------------------------------------------------------------
\* State
\* ------------------------------------------------------------------------
VARIABLES
    videoId,            \* the videoId prop the App passes to the player
    duration,           \* VideoPlayer's duration state (0 until metadata)
    isSeeking,          \* VideoPlayer's isSeeking state, as last set
    durationSet,        \* durationSetRef
    paused,             \* the paused attribute of the <video> element
    currentTime,        \* the currentTime of the mounted <video> element
    video,              \* the element held by the unload effect's closure
    currentInterval,    \* currentIntervalRef: an interval or None
    lastUpdateTime,     \* lastUpdateTimeRef (ms)
    lastUIUpdateTime,   \* lastUIUpdateTimeRef (ms)
    isPlaying,          \* isPlayingRef
    lastKnownPosition,  \* lastKnownPositionRef
    intervals,          \* intervalsRef
    totalWatched,       \* totalWatchedRef
    wasFullyWatched,    \* wasFullyWatchedRef: the completion latch
    localProgress,      \* localProgress state: the reported percentage
    skippedAhead,       \* skippedAhead state, as last set
    isCompleted,        \* isCompleted state, as last set
    error,              \* error state, as last set: None or a message
    rendered,           \* what the closures of the last render captured
    cache,              \* localStorage: per video a record, Malformed or None
    remote,             \* the remote store: per video a record or None
    fetches,            \* getProgress calls in flight: the closures that wait
    saves,              \* updateProgress calls in flight: the bodies sent
    now,                \* Date.now(), ms since the session started
    ticks,              \* number of clock advances so far
    events,             \* number of calls made into the hook so far
    calcs,              \* the calculateProgress calls of the last step
    lastCall,           \* which handler or effect ran in the last step
    jumpRun,            \* monitor of the play(0), jump-to-the-end session
    videos,             \* the App's videos state: per video its list entry
    storedProgress,     \* localStorage: per video the App's summary or None
    onProgress,         \* which inline onProgress callback the App passed last
    reported            \* the dependencies the onProgress effect last ran with

vars == << videoId, duration, isSeeking, durationSet, paused, currentTime, video,
           currentInterval, lastUpdateTime, lastUIUpdateTime, isPlaying,
           lastKnownPosition, intervals, totalWatched, wasFullyWatched,
           localProgress, skippedAhead, isCompleted, error, rendered, cache,
           remote, fetches, saves, now, ticks, events, calcs, lastCall,
           jumpRun, videos, storedProgress, onProgress, reported >>

\* ------------------------------------------------------------------------
\* The environment: the videos, the clock, the stores
\* ------------------------------------------------------------------------
\* the videos of the App's list: the session starts on video 1
Videos == {1, 2}
\* durations the video element can report (20 s)
VideoDurations == {400}
\* positions the video element can report: 0 s, 10 s, 19.9 s
VideoPositions == {0, 200, 398}
Positions == IF durationSet THEN VideoPositions ELSE {0}
\* amounts of wall-clock time that pass between two steps
ClockSteps == {1000, 5000}

\* a localStorage item that JSON.parse rejects
Malformed == [malformed |-> TRUE]

\* what an earlier session can have left in localStorage for video 1
PriorCaches ==
    { None,
      Malformed,
      \* all of it watched, in a session that was flagged as skipping
      [lastPosition |-> 398, totalWatched |-> 398,
       intervals |-> << Interval(200, 398), Interval(0, 200) >>,
       timestamp |-> 0 - 1000, isCompleted |-> FALSE],
      \* completed
      [lastPosition |-> 398, totalWatched |-> 398,
       intervals |-> << Interval(0, 398) >>, timestamp |-> 0 - 1000,
       isCompleted |-> TRUE] }

\* what the remote store can hold for video 1 when the session starts:
\* nothing (GET /progress/{videoId} fails with 404) or a record
ServerRecords ==
    { None,
      [intervals |-> << >>, lastPosition |-> 0, lastWatchedAt |-> 0 - 2000],
      [intervals |-> << Interval(0, 200) >>, lastPosition |-> 200,
       lastWatchedAt |-> 0 - 500] }

\* video 1 holds rec, the other videos hold nothing
OnlyVideo1(rec) == [v \in Videos |-> IF v = 1 THEN rec ELSE None]

\* the progress fields of an entry of the App's video list
Entry(progress, completed) == [progress |-> progress, isCompleted |-> completed]

\* the App when it has mounted: the entries of DEMO_VIDEOS, the stored
\* summaries cleared, the first onProgress callback passed to the player,
\* whose onProgress effect has not run yet
AppMounted ==
    /\ videos = [v \in Videos |-> Entry(Pct0, FALSE)]
    /\ storedProgress = [v \in Videos |-> None]
    /\ onProgress = 0
    /\ reported = None

\* the App's state, left alone by what happens inside the player
AppUnchanged == UNCHANGED << videos, storedProgress, onProgress, reported >>

\* ------------------------------------------------------------------------
\* Helpers of the hook
\* ------------------------------------------------------------------------
\* the record saveToLocalStorage writes
LocalStorageProgress(lkp, total, ints, latch) ==
    [lastPosition |-> lkp, totalWatched |-> total, intervals |-> ints,
     timestamp |-> now, isCompleted |-> latch]

\* what the closures of a render capture
Snapshot == [videoId |-> videoId, duration |-> duration,
             skippedAhead |-> skippedAhead, error |-> error,
             isSeeking |-> isSeeking]

\* React commits a pending re-render, and runs its effects, before the next
\* event or promise callback is delivered
UpToDate == rendered = Snapshot

\* the <video> element is rendered only when the last render saw no error
HasVideo == UpToDate /\ rendered.error = None

\* a calculateProgress call as recorded in calcs; flagged tells whether a
\* skip had been detected (and not reset) when the call was made
CalcEntry(c, flagged) ==
    [d |-> c.d, latchBefore |-> c.latchBefore, latchAfter |-> c.latch,
     ret |-> c.ret, merged |-> c.merged, flagged |-> flagged]

\* the refs and states that the handlers and effects of the hook share
Tracker ==
    [isPlaying |-> isPlaying, currentInterval |-> currentInterval,
     lastKnownPosition |-> lastKnownPosition, intervals |-> intervals,
     totalWatched |-> totalWatched, wasFullyWatched |-> wasFullyWatched,
     localProgress |-> localProgress, skippedAhead |-> skippedAhead,
     isCompleted |-> isCompleted, error |-> error, cache |-> cache,
     calcs |-> << >>]

Commit(s) ==
    /\ isPlaying' = s.isPlaying
    /\ currentInterval' = s.currentInterval
    /\ lastKnownPosition' = s.lastKnownPosition
    /\ intervals' = s.intervals
    /\ totalWatched' = s.totalWatched
    /\ wasFullyWatched' = s.wasFullyWatched
    /\ localProgress' = s.localProgress
    /\ skippedAhead' = s.skippedAhead
    /\ isCompleted' = s.isCompleted
    /\ error' = s.error
    /\ cache' = s.cache
    /\ calcs' = s.calcs

Init ==
    /\ videoId = 1
    /\ duration = 0
    /\ isSeeking = FALSE
    /\ durationSet = FALSE
    /\ paused = TRUE
    /\ currentTime = 0
    /\ video = None
    /\ currentInterval = None
    /\ lastUpdateTime = 0
    /\ lastUIUpdateTime = 0
    /\ isPlaying = FALSE
    /\ lastKnownPosition = 0
    /\ intervals = << >>
    /\ totalWatched = 0
    /\ wasFullyWatched = FALSE
    /\ localProgress = Pct0
    /\ skippedAhead = FALSE
    /\ isCompleted = FALSE
    /\ error = None
    /\ rendered = None
    /\ cache \in { OnlyVideo1(c) : c \in PriorCaches }
    /\ remote \in { OnlyVideo1(r) : r \in ServerRecords }
    /\ fetches = {}
    /\ saves = {}
    /\ now = 0
    /\ ticks = 0
    /\ events = 0
    /\ calcs = << >>
    /\ lastCall = "init"
    /\ jumpRun = "start"
    /\ AppMounted

\* ------------------------------------------------------------------------
\* Monitor of the session "empty record, play(0), one jump of more than
\* 10 s to a position at or beyond 99.5% of the duration, further
\* time-updates without a jump, a pause"
\* ------------------------------------------------------------------------
IsEmptyRecord ==
    /\ cache[videoId] = None /\ intervals = << >> /\ currentInterval = None
    /\ lastKnownPosition = 0 /\ ~skippedAhead /\ ~wasFullyWatched

\* faulty variant: a difference of exactly the threshold is a skip
IsJumpInclusive(t, from) == Abs(t - from) >= SKIP_THRESHOLD

\* the skip test of handleTimeUpdate
IsJump(t, from) == Abs(t - from) > SKIP_THRESHOLD
IsNearEnd(t, d) == t * 1000 >= LATCH_THRESHOLD * d

JumpAfterPlay(t) ==
    IF jumpRun = "start" /\ t = 0 /\ IsEmptyRecord THEN "played0" ELSE "off"

JumpAfterTimeUpdate(t, d) ==
    IF jumpRun = "played0" /\ IsJump(t, lastKnownPosition) /\ IsNearEnd(t, d)
    THEN "jumped"
    ELSE IF jumpRun = "jumped" /\ ~IsJump(t, lastKnownPosition)
    THEN "jumped"
    ELSE "off"

JumpAfterPause == IF jumpRun = "jumped" THEN "paused" ELSE "off"

JumpAfterRemote(rec) == IF rec.intervals = << >> THEN jumpRun ELSE "off"

\* ------------------------------------------------------------------------
\* The parts of the hook that run both from an event and from an effect,
\* as functions of the tracker s they find
\* ------------------------------------------------------------------------
\* faulty variant: handlePause records an open interval of any length
PauseRecordsAny(span) == TRUE

\* handlePause records an open interval that ends span after its start
PauseRecords(span) == span >= MINIMUM_WATCH_TIME

\* faulty variant: handlePause leaves the open interval open
OpenAfterPauseKept(open) == open

\* what handlePause leaves in currentIntervalRef
OpenAfterPause(open) == None

\* handlePause(t) as created by a render that captured duration d, skip
\* flag skip and video key
PauseTracker(s, t, d, skip, key) ==
    IF s.currentInterval # None
       /\ PauseRecords(t - s.currentInterval.start)
    THEN LET ints == Append(s.intervals, Interval(s.currentInterval.start, t))
             c == CalculateProgress(ints, d, skip, s.wasFullyWatched,
                                    s.totalWatched)
         IN  [s EXCEPT !.isPlaying = FALSE,
                       !.currentInterval = OpenAfterPause(s.currentInterval),
                       !.intervals = ints,
                       !.totalWatched = c.total,
                       !.wasFullyWatched = c.latch,
                       !.isCompleted = (s.isCompleted
                                        \/ (c.latch /\ ~c.latchBefore)),
                       !.localProgress = c.ret,
                       !.calcs = Append(s.calcs, CalcEntry(c, s.skippedAhead)),
                       !.cache[key] = LocalStorageProgress(
                                          s.lastKnownPosition, c.total, ints,
                                          c.latch)]
    ELSE [s EXCEPT !.isPlaying = FALSE,
                   !.currentInterval = OpenAfterPause(s.currentInterval)]

\* the load effect runs when calculateProgress (so duration or
\* skippedAhead) or videoId changed
LoadRuns ==
    \/ rendered = None
    \/ rendered.videoId # videoId
    \/ rendered.duration # duration
    \/ rendered.skippedAhead # skippedAhead

\* loadProgress with a parsed localStorage record local
LoadFromCache(s, local, d, skip) ==
    IF local.isCompleted
    THEN [s EXCEPT !.lastKnownPosition = local.lastPosition,
                   !.intervals = local.intervals,
                   !.wasFullyWatched = TRUE,
                   !.isCompleted = TRUE,
                   !.localProgress = Pct100]
    ELSE LET c == CalculateProgress(local.intervals, d, skip, FALSE,
                                    s.totalWatched)
         IN  [s EXCEPT !.lastKnownPosition = local.lastPosition,
                       !.intervals = local.intervals,
                       !.wasFullyWatched = c.latch,
                       !.isCompleted = c.latch,
                       !.localProgress = c.ret,
                       !.totalWatched = c.total,
                       !.calcs = Append(s.calcs, CalcEntry(c, skip))]

\* the synchronous part of loadProgress for the video key
LoadProgress(s, d, skip, key) ==
    IF s.cache[key] = None THEN s
    ELSE IF s.cache[key] = Malformed
    THEN [s EXCEPT !.error = [message |-> "Failed to load saved progress"]]
    ELSE LoadFromCache(s, s.cache[key], d, skip)

\* the closure that waits for getProgress, given the localStorage item read
FetchClosure(local) ==
    [videoId |-> videoId, duration |-> duration,
     skippedAhead |-> skippedAhead, hasLocal |-> local # None,
     localMalformed |-> local = Malformed,
     localTimestamp |-> IF local # None /\ local # Malformed
                        THEN local.timestamp ELSE 0]

\* what the closure of the unload effect can hold as video
Mounted == [mounted |-> TRUE]
Detached(t) == [detachedAt |-> t]

\* ------------------------------------------------------------------------
\* Render: React re-renders the player after a state or prop change.  The
\* commit mounts or unmounts the <video> element (the player shows the
\* error instead of the video) and loads a new src, which puts the element
\* back to paused at 0.  Then the cleanups of the effects whose
\* dependencies changed run, then the effects themselves:
\*   - the cleanup of the unload effect calls the handlePause of the
\*     previous render with the currentTime of the element it holds; its
\*     dependencies are handlePause, which changes with duration,
\*     skippedAhead and videoId, and isSeeking; it does nothing when the
\*     previous render saw isSeeking set;
\*   - the load effect reads the cache and dispatches getProgress;
\*   - the effect on videoId resets duration and durationSetRef;
\*   - the unload effect captures the element now in the document.
\* ------------------------------------------------------------------------
Render ==
    LET first == rendered = None
        elementBefore == ~first /\ rendered.error = None
        elementAfter == error = None
        videoChanged == first \/ rendered.videoId # videoId
        pauseChanged == LoadRuns \/ rendered.isSeeking # isSeeking
        fresh == elementAfter /\ (~elementBefore \/ videoChanged)
        time == IF fresh \/ ~elementAfter THEN 0 ELSE currentTime
        held == IF video = Mounted /\ ~elementAfter
                THEN Detached(currentTime) ELSE video
        s1 == IF ~first /\ pauseChanged /\ held # None /\ ~rendered.isSeeking
              THEN PauseTracker(Tracker,
                                IF held = Mounted THEN time
                                ELSE held.detachedAt,
                                rendered.duration, rendered.skippedAhead,
                                rendered.videoId)
              ELSE Tracker
        s2 == IF LoadRuns
              THEN LoadProgress(s1, duration, skippedAhead, videoId)
              ELSE s1
    IN  /\ rendered # Snapshot
        /\ LoadRuns => Cardinality(fetches) < MaxFetches
        /\ rendered' = Snapshot
        /\ Commit(s2)
        /\ fetches' = IF LoadRuns
                      THEN fetches \cup {FetchClosure(s1.cache[videoId])}
                      ELSE fetches
        /\ duration' = IF videoChanged THEN 0 ELSE duration
        /\ durationSet' = IF videoChanged THEN FALSE ELSE durationSet
        /\ video' = IF pauseChanged
                    THEN (IF elementAfter THEN Mounted ELSE None)
                    ELSE held
        /\ currentTime' = time
        /\ paused' = IF fresh \/ ~elementAfter THEN TRUE ELSE paused
        /\ lastCall' = IF first THEN "mount"
                       ELSE IF videoChanged THEN "switch"
                       ELSE IF LoadRuns THEN "reload" ELSE "render"
        /\ UNCHANGED << videoId, isSeeking, lastUpdateTime, lastUIUpdateTime, remote,
                        saves, now, ticks, events, jumpRun >>
        /\ AppUnchanged

\* faulty variant: the latch is not looked at
UsesServerDataIgnoringLatch(f, rec) ==
    \/ ~f.hasLocal
    \/ rec.lastWatchedAt > f.localTimestamp

\* the test of getProgress.then: is the server record adopted?
UsesServerData(f, rec) ==
    \/ ~f.hasLocal
    \/ (~wasFullyWatched /\ rec.lastWatchedAt > f.localTimestamp)

\* JSON.parse(localData) of that test throws: the item is malformed and
\* the && reaches it
ParseThrows(f) == f.hasLocal /\ ~wasFullyWatched /\ f.localMalformed

\* getProgress(...).then of loadProgress, for the fetch in flight f; when
\* the callback throws, the .catch that follows it runs
FetchResolve(f) ==
    LET rec == remote[f.videoId]
        c == CalculateProgress(rec.intervals, f.duration, f.skippedAhead,
                               wasFullyWatched, totalWatched)
    IN  /\ UpToDate
        /\ rec # None
        /\ fetches' = fetches \ {f}
        /\ lastCall' = "fetchResolve"
        /\ IF ParseThrows(f)
           THEN /\ error' = [message |-> "Failed to load progress from server"]
                /\ calcs' = << >>
                /\ UNCHANGED << lastKnownPosition, intervals, wasFullyWatched,
                                isCompleted, localProgress, totalWatched,
                                jumpRun >>
           ELSE IF UsesServerData(f, rec)
           THEN /\ error' = None
                /\ lastKnownPosition' = rec.lastPosition
                /\ intervals' = rec.intervals
                /\ wasFullyWatched' = c.latch
                /\ isCompleted' = (isCompleted \/ (c.latch /\ ~c.latchBefore))
                /\ localProgress' = c.ret
                /\ totalWatched' = c.total
                /\ calcs' = << CalcEntry(c, skippedAhead) >>
                /\ jumpRun' = JumpAfterRemote(rec)
           ELSE /\ error' = None
                /\ calcs' = << >>
                /\ UNCHANGED << lastKnownPosition, intervals, wasFullyWatched,
                                isCompleted, localProgress, totalWatched,
                                jumpRun >>
        /\ UNCHANGED << videoId, isSeeking, duration, durationSet, paused, currentTime,
                        video, currentInterval, lastUpdateTime,
                        lastUIUpdateTime, isPlaying, skippedAhead, rendered,
                        cache, remote, saves, now, ticks, events >>
        /\ AppUnchanged

\* getProgress(...).catch of loadProgress
FetchReject(f) ==
    /\ UpToDate
    /\ remote[f.videoId] = None
    /\ fetches' = fetches \ {f}
    /\ error' = [message |-> "Failed to load progress from server"]
    /\ calcs' = << >>
    /\ lastCall' = "fetchReject"
    /\ UNCHANGED << videoId, isSeeking, duration, durationSet, paused, currentTime,
                    video, currentInterval, lastUpdateTime, lastUIUpdateTime,
                    isPlaying, lastKnownPosition, intervals, totalWatched,
                    wasFullyWatched, localProgress, skippedAhead, isCompleted,
                    rendered, cache, remote, saves, now, ticks, events,
                    jumpRun >>
    /\ AppUnchanged

\* handleLoadedMetadata of VideoPlayer
LoadedMetadata(d) ==
    /\ HasVideo
    /\ ~durationSet
    /\ duration' = d
    /\ durationSet' = TRUE
    /\ calcs' = << >>
    /\ lastCall' = "loadedmetadata"
    /\ UNCHANGED << videoId, isSeeking, paused, currentTime, video, currentInterval,
                    lastUpdateTime, lastUIUpdateTime, isPlaying,
                    lastKnownPosition, intervals, totalWatched,
                    wasFullyWatched, localProgress, skippedAhead, isCompleted,
                    error, rendered, cache, remote, fetches, saves, now,
                    ticks, events, jumpRun >>
    /\ AppUnchanged

\* wall-clock time passes
Tick(step) ==
    /\ UpToDate
    /\ ticks' = ticks + 1
    /\ now' = now + step
    /\ calcs' = << >>
    /\ lastCall' = "tick"
    /\ UNCHANGED << videoId, isSeeking, duration, durationSet, paused, currentTime,
                    video, currentInterval, lastUpdateTime, lastUIUpdateTime,
                    isPlaying, lastKnownPosition, intervals, totalWatched,
                    wasFullyWatched, localProgress, skippedAhead, isCompleted,
                    error, rendered, cache, remote, fetches, saves, events,
                    jumpRun >>
    /\ AppUnchanged

\* ------------------------------------------------------------------------
\* Playback handlers
\* ------------------------------------------------------------------------
\* faulty variant: resetProgress never returns early
ResetNeverRefused(s) == FALSE

\* the early return of resetProgress
ResetRefused(s) == s.wasFullyWatched

\* resetProgress as created by a render that captured the video key
ResetTracker(s, key) ==
    IF ResetRefused(s) THEN s
    ELSE [s EXCEPT !.intervals = << >>,
                   !.currentInterval = None,
                   !.totalWatched = 0,
                   !.lastKnownPosition = 0,
                   !.localProgress = Pct0,
                   !.skippedAhead = FALSE,
                   !.cache[key] = LocalStorageProgress(0, 0, << >>,
                                                       s.wasFullyWatched)]

\* faulty variant: the position of the play is not looked at
ResetRunsAtAnyPosition(t) == lastKnownPosition > 0 /\ ~wasFullyWatched

\* handlePlay calls resetProgress when the viewer starts over
ResetRuns(t) == t = 0 /\ lastKnownPosition > 0 /\ ~wasFullyWatched

\* handlePlay(t), as the closures of the last render run it
PlayCall(t) ==
    LET s1 == [Tracker EXCEPT !.isPlaying = TRUE]
        s2 == IF ResetRuns(t) THEN ResetTracker(s1, rendered.videoId) ELSE s1
    IN  /\ currentTime' = t
        /\ events' = events + 1
        /\ Commit([s2 EXCEPT !.currentInterval = Interval(t, t)])
        /\ jumpRun' = JumpAfterPlay(t)
        /\ UNCHANGED << videoId, isSeeking, duration, durationSet, video, lastUpdateTime,
                        lastUIUpdateTime, rendered, remote, fetches, saves,
                        now, ticks >>
        /\ AppUnchanged

\* onPlay of VideoPlayer: the element starts to play at t
HandlePlay(t) ==
    /\ HasVideo
    /\ paused
    /\ paused' = FALSE
    /\ PlayCall(t)
    /\ lastCall' = "play"

\* handlePause(t), as the closures of the last render run it
PauseCall(t) ==
    /\ currentTime' = t
    /\ events' = events + 1
    /\ Commit(PauseTracker(Tracker, t, rendered.duration,
                           rendered.skippedAhead, rendered.videoId))
    /\ jumpRun' = JumpAfterPause
    /\ UNCHANGED << videoId, isSeeking, duration, durationSet, video, lastUpdateTime,
                    lastUIUpdateTime, rendered, remote, fetches, saves, now,
                    ticks >>
    /\ AppUnchanged

\* onPause of VideoPlayer: the element pauses at t
HandlePause(t) ==
    /\ HasVideo
    /\ ~paused
    /\ paused' = TRUE
    /\ PauseCall(t)
    /\ lastCall' = "pause"

\* resetProgress() called by the consumer of the hook
ResetProgress ==
    /\ UpToDate
    /\ events' = events + 1
    /\ Commit(ResetTracker(Tracker, rendered.videoId))
    /\ lastCall' = "reset"
    /\ jumpRun' = "off"
    /\ UNCHANGED << videoId, isSeeking, duration, durationSet, paused, currentTime,
                    video, lastUpdateTime, lastUIUpdateTime, rendered, remote,
                    fetches, saves, now, ticks >>
    /\ AppUnchanged

\* faulty variant: the UI tick runs at every time-update
UiDueAlways(elapsed) == TRUE

\* faulty variant: the server is written at the UI cadence
SaveDueAtUiCadence(elapsed) == elapsed >= UI_UPDATE_INTERVAL

\* the two cadences of handleTimeUpdate, given the time elapsed
UiDue(elapsed) == elapsed >= UI_UPDATE_INTERVAL
SaveDue(elapsed) == elapsed >= PROGRESS_UPDATE_INTERVAL

\* faulty variant: the persistence tick closes an open interval of any span
TickClosesAny(span) == TRUE

\* the persistence tick closes an open interval of this span
TickCloses(span) == span >= MINIMUM_WATCH_TIME

\* faulty variant: a new remote write cancels the writes still in flight
DispatchCancelsPending(pending, w) == {w}

\* saveProgress called without await: the write w joins the writes that
\* are in flight
Dispatch(pending, w) == pending \cup {w}

\* handleTimeUpdate(t): extend the open interval, detect a skip, run the UI
\* tick and the persistence tick when they are due
TimeUpdateCall(t) ==
    LET d == rendered.duration
        uiDue == UiDue(now - lastUIUpdateTime)
        saveDue == SaveDue(now - lastUpdateTime)
        \* update current interval
        cur1 == IF currentInterval # None
                THEN Interval(currentInterval.start, t)
                ELSE Interval(t, t)
        \* check for skips
        skip == IsJump(t, lastKnownPosition)
        ints1 == IF skip THEN Append(intervals, cur1) ELSE intervals
        cur2 == IF skip THEN Interval(t, t) ELSE cur1
        flagged == skippedAhead \/ skip
        \* UI tick
        c1 == CalculateProgress(ints1, d, rendered.skippedAhead,
                                wasFullyWatched, totalWatched)
        latch1 == IF uiDue THEN c1.latch ELSE wasFullyWatched
        total1 == IF uiDue THEN c1.total ELSE totalWatched
        \* persistence tick
        closes == saveDue /\ TickCloses(Span(cur2))
        ints2 == IF closes THEN Append(ints1, cur2) ELSE ints1
        cur3 == IF closes THEN Interval(t, t) ELSE cur2
        c2 == CalculateProgress(ints2, d, rendered.skippedAhead, latch1, total1)
    IN  /\ isPlaying
        /\ d # 0
        /\ events' = events + 1
        /\ saveDue => Cardinality(saves) < MaxSaves
        /\ currentTime' = t
        /\ intervals' = ints2
        /\ currentInterval' = cur3
        /\ skippedAhead' = flagged
        /\ lastKnownPosition' = t
        /\ lastUIUpdateTime' = IF uiDue THEN now ELSE lastUIUpdateTime
        /\ lastUpdateTime' = IF saveDue THEN now ELSE lastUpdateTime
        /\ wasFullyWatched' = IF saveDue THEN c2.latch ELSE latch1
        /\ totalWatched' = IF saveDue THEN c2.total ELSE total1
        /\ isCompleted' = (isCompleted \/ (wasFullyWatched' /\ ~wasFullyWatched))
        /\ localProgress' = IF saveDue THEN c2.ret
                            ELSE IF uiDue THEN c1.ret ELSE localProgress
        /\ calcs' = (IF uiDue THEN << CalcEntry(c1, flagged) >> ELSE << >>)
                    \o (IF saveDue THEN << CalcEntry(c2, flagged) >> ELSE << >>)
        /\ saves' = IF saveDue
                    THEN Dispatch(saves, [videoId |-> rendered.videoId,
                                          interval |-> cur3,
                                          lastPosition |-> t])
                    ELSE saves
        /\ jumpRun' = JumpAfterTimeUpdate(t, d)
        /\ UNCHANGED << videoId, duration, durationSet, paused, video,
                        isPlaying, error, rendered, cache, remote, fetches,
                        now, ticks >>
        /\ AppUnchanged

\* a time-update of the element that the tracker processes
HandleTimeUpdate(t) == HasVideo /\ TimeUpdateCall(t)

\* handleTimeUpdate(t) when it returns at once: the tracker is not playing
\* or the duration is not known
TimeUpdateReturn(t) ==
    /\ ~(isPlaying /\ rendered.duration # 0)
    /\ events' = events + 1
    /\ currentTime' = t
    /\ calcs' = << >>
    /\ UNCHANGED << videoId, duration, durationSet, paused, video,
                    currentInterval, lastUpdateTime, lastUIUpdateTime,
                    isPlaying, lastKnownPosition, intervals, totalWatched,
                    wasFullyWatched, localProgress, skippedAhead, isCompleted,
                    error, rendered, cache, remote, fetches, saves, now,
                    ticks, jumpRun >>
    /\ AppUnchanged

\* a time-update of the element that the tracker ignores
IgnoredTimeUpdate(t) == HasVideo /\ TimeUpdateReturn(t)

\* onTimeUpdate of VideoPlayer, for a time-update that the tracker processes
OnTimeUpdate(t) ==
    /\ HandleTimeUpdate(t)
    /\ lastCall' = "timeupdate"
    /\ UNCHANGED isSeeking

\* onTimeUpdate of VideoPlayer, for a time-update that the tracker ignores
OnTimeUpdateIgnored(t) ==
    /\ IgnoredTimeUpdate(t)
    /\ lastCall' = "timeupdate"
    /\ UNCHANGED isSeeking

\* onSeeking of VideoPlayer: the viewer moved the playhead to t
OnSeeking(t) ==
    /\ HasVideo
    /\ ~isSeeking
    /\ isSeeking' = TRUE
    /\ currentTime' = t
    /\ events' = events + 1
    /\ calcs' = << >>
    /\ lastCall' = "seeking"
    /\ jumpRun' = "off"
    /\ UNCHANGED << videoId, duration, durationSet, paused, video,
                    currentInterval, lastUpdateTime, lastUIUpdateTime,
                    isPlaying, lastKnownPosition, intervals, totalWatched,
                    wasFullyWatched, localProgress, skippedAhead, isCompleted,
                    error, rendered, cache, remote, fetches, saves, now,
                    ticks >>
    /\ AppUnchanged

\* onSeeked of VideoPlayer: the seek is over, and the position the element
\* is at goes to handleTimeUpdate
OnSeeked ==
    /\ isSeeking
    /\ isSeeking' = FALSE
    /\ lastCall' = "seeked"
    /\ \/ HandleTimeUpdate(currentTime)
       \/ IgnoredTimeUpdate(currentTime)

\* saveProgress after updateProgress resolved, for the write in flight w:
\* the saveToLocalStorage it calls is the one of the render that sent w
SaveResolve(w) ==
    /\ UpToDate
    /\ saves' = saves \ {w}
    /\ error' = None
    /\ cache' = [cache EXCEPT ![w.videoId] =
                    LocalStorageProgress(lastKnownPosition, totalWatched,
                                         intervals, wasFullyWatched)]
    /\ calcs' = << >>
    /\ lastCall' = "saveResolve"
    /\ UNCHANGED << videoId, isSeeking, duration, durationSet, paused, currentTime,
                    video, currentInterval, lastUpdateTime, lastUIUpdateTime,
                    isPlaying, lastKnownPosition, intervals, totalWatched,
                    wasFullyWatched, localProgress, skippedAhead, isCompleted,
                    rendered, remote, fetches, now, ticks, events, jumpRun >>
    /\ AppUnchanged

\* saveProgress after updateProgress rejected
SaveReject(w) ==
    /\ UpToDate
    /\ saves' = saves \ {w}
    /\ error' = [message |-> "Failed to save progress"]
    /\ calcs' = << >>
    /\ lastCall' = "saveReject"
    /\ UNCHANGED << videoId, isSeeking, duration, durationSet, paused, currentTime,
                    video, currentInterval, lastUpdateTime, lastUIUpdateTime,
                    isPlaying, lastKnownPosition, intervals, totalWatched,
                    wasFullyWatched, localProgress, skippedAhead, isCompleted,
                    rendered, cache, remote, fetches, now, ticks, events,
                    jumpRun >>
    /\ AppUnchanged

\* the viewer picks the next video of the sidebar: the App passes a new
\* videoId to the same player
SelectVideo(v) ==
    /\ UpToDate
    /\ v = videoId + 1
    /\ videoId' = v
    /\ calcs' = << >>
    /\ lastCall' = "select"
    /\ UNCHANGED << duration, isSeeking, durationSet, paused, currentTime,
                    video,
                    currentInterval, lastUpdateTime, lastUIUpdateTime,
                    isPlaying, lastKnownPosition, intervals, totalWatched,
                    wasFullyWatched, localProgress, skippedAhead, isCompleted,
                    error, rendered, cache, remote, fetches, saves, now,
                    ticks, events, jumpRun >>
    /\ AppUnchanged

\* ------------------------------------------------------------------------
\* The player as the App wires it: one video, events of the <video>
\* element in any order, the clock, the responses of the remote store
\* ------------------------------------------------------------------------
Next ==
    \/ Render
    \/ \E d \in VideoDurations : LoadedMetadata(d)
    \/ \E step \in ClockSteps : ticks < MaxTicks /\ Tick(step)
    \/ \E t \in Positions : events < MaxEvents /\ HandlePlay(t)
    \/ \E t \in Positions : events < MaxEvents /\ HandlePause(t)
    \/ \E t \in Positions : events < MaxEvents /\ OnTimeUpdate(t)
    \/ \E f \in fetches : FetchResolve(f)
    \/ \E f \in fetches : FetchReject(f)
    \/ \E w \in saves : SaveResolve(w)
    \/ \E w \in saves : SaveReject(w)

Spec == Init /\ [][Next]_vars

\* The player with a consumer of the hook that also calls the resetProgress
\* the hook returns
NextReset ==
    \/ Next
    \/ events < MaxEvents /\ ResetProgress

SpecReset == Init /\ [][NextReset]_vars

\* The player in the App, whose sidebar lets the viewer pick another video
NextSwitch ==
    \/ Next
    \/ \E v \in Videos : SelectVideo(v)

SpecSwitch == Init /\ [][NextSwitch]_vars

\* The player with a viewer who also moves the playhead
NextSeek ==
    \/ Next
    \/ \E t \in Positions : events < MaxEvents /\ OnSeeking(t)
    \/ events < MaxEvents /\ OnSeeked

SpecSeek == Init /\ [][NextSeek]_vars

\* The <video> element has each of onPlay, onPause and onTimeUpdate both as
\* a prop and as a listener added by the effect, so it calls each twice
\* for one event: the second call comes right after the first, with the
\* same closures, the same currentTime and the same clock
PlayAgain ==
    /\ lastCall = "play"
    /\ PlayCall(currentTime)
    /\ lastCall' = "again"
    /\ UNCHANGED paused

PauseAgain ==
    /\ lastCall = "pause"
    /\ PauseCall(currentTime)
    /\ lastCall' = "again"
    /\ UNCHANGED paused

TimeUpdateAgain ==
    /\ lastCall = "timeupdate"
    /\ \/ TimeUpdateCall(currentTime)
       \/ TimeUpdateReturn(currentTime)
    /\ lastCall' = "again"
    /\ UNCHANGED isSeeking

NextTwice ==
    \/ Next
    \/ PlayAgain
    \/ PauseAgain
    \/ TimeUpdateAgain

SpecTwice == Init /\ [][NextTwice]_vars

\* ------------------------------------------------------------------------
\* The App around the player: its video list, the summaries it stores and
\* the onProgress callback it passes to the player
\* ------------------------------------------------------------------------
\* the literal 95 of handleVideoProgress
ARTIFICIAL_BELOW == 95

\* JSON.parse(storedProgress).progress < 95
BelowArtificial(summary) ==
    summary.progress.num < ARTIFICIAL_BELOW * summary.progress.den

\* handleVideoProgress takes a reported 100 for an immediate jump to the
\* end: the entry is not completed and no summary of 95 or more is stored
IsArtificial(v, progress) ==
    /\ progress = Pct100
    /\ ~videos[v].isCompleted
    /\ storedProgress[v] = None \/ BelowArtificial(storedProgress[v])

\* handleVideoProgress(v, progress, completed): the entry of the list and
\* the stored summary of the video v
HandleVideoProgress(v, progress, completed) ==
    LET entry == IF IsArtificial(v, progress)
                 THEN Entry(Pct0, FALSE)
                 ELSE Entry(progress, completed)
    IN  /\ videos' = [videos EXCEPT ![v] = entry]
        /\ storedProgress' = [storedProgress EXCEPT ![v] = entry]

\* the dependencies of the onProgress effect of VideoPlayer
EffectDeps ==
    [progress |-> localProgress, isCompleted |-> isCompleted,
     onProgress |-> onProgress, duration |-> duration]

\* the player has rendered with dependencies the effect has not run with
EffectDue == UpToDate /\ reported # EffectDeps

\* the onProgress effect of VideoPlayer: with a valid duration it reports
\* to the App, whose handleVideoProgress sets the videos state to a new
\* array; the App renders again and passes a new inline onProgress
OnProgressEffect ==
    /\ EffectDue
    /\ reported' = EffectDeps
    /\ IF duration > 0
       THEN /\ HandleVideoProgress(videoId, localProgress, isCompleted)
            /\ onProgress' = 1 - onProgress
       ELSE UNCHANGED << videos, storedProgress, onProgress >>
    /\ calcs' = << >>
    /\ lastCall' = "report"
    /\ UNCHANGED << videoId, duration, isSeeking, durationSet, paused,
                    currentTime, video, currentInterval, lastUpdateTime,
                    lastUIUpdateTime, isPlaying, lastKnownPosition, intervals,
                    totalWatched, wasFullyWatched, localProgress, skippedAhead,
                    isCompleted, error, rendered, cache, remote, fetches,
                    saves, now, ticks, events, jumpRun >>

NextApp ==
    \/ Next
    \/ OnProgressEffect

SpecApp == Init /\ [][NextApp]_vars

\* the App is opened on a video and left alone: the player mounts, the
\* metadata and the answers of the server arrive, the effects run; no
\* playback event is delivered
NextOpen ==
    \/ Render
    \/ \E d \in VideoDurations : LoadedMetadata(d)
    \/ \E f \in fetches : FetchResolve(f)
    \/ \E f \in fetches : FetchReject(f)
    \/ OnProgressEffect

\* React runs an effect whose dependencies changed
SpecOpen ==
    /\ Init
    /\ [][NextOpen]_vars
    /\ WF_vars(OnProgressEffect)

\* The player with a viewer who moves the playhead and a consumer of the
\* hook that calls resetProgress
NextSeekReset ==
    \/ NextSeek
    \/ events < MaxEvents /\ ResetProgress

\* ------------------------------------------------------------------------
\* The merge on arbitrary stored intervals: the remote store answers the
\* load with a record whose interval list is any list of at most MaxRaw
\* intervals over MergeTimes, which the hook adopts and merges.
\* ------------------------------------------------------------------------
\* 0 s, 30 s, 30.05 s, 30.1 s, 30.15 s, 32 s, 60 s
MergeTimes == {0, 600, 601, 602, 603, 640, 1200}
\* 100 s and 31 s
MergeDurations == {2000, 620}

RawIntervals == { Interval(a, b) : a \in MergeTimes, b \in MergeTimes }
RawLists == UNION { [1..n -> RawIntervals] : n \in 0..MaxRaw }

InitMerge ==
    /\ videoId = 1
    /\ duration \in MergeDurations
    /\ isSeeking = FALSE
    /\ durationSet = TRUE
    /\ paused = TRUE
    /\ currentTime = 0
    /\ video = Mounted
    /\ currentInterval = None
    /\ lastUpdateTime = 0
    /\ lastUIUpdateTime = 0
    /\ isPlaying = FALSE
    /\ lastKnownPosition = 0
    /\ intervals = << >>
    /\ totalWatched = 0
    /\ wasFullyWatched = FALSE
    /\ localProgress = Pct0
    /\ skippedAhead = FALSE
    /\ isCompleted = FALSE
    /\ error = None
    /\ rendered = Snapshot
    /\ cache = OnlyVideo1(None)
    /\ remote \in { OnlyVideo1([intervals |-> l, lastPosition |-> 0,
                                lastWatchedAt |-> 0 - 500]) : l \in RawLists }
    /\ fetches = {FetchClosure(None)}
    /\ saves = {}
    /\ now = 0
    /\ ticks = 0
    /\ events = 0
    /\ calcs = << >>
    /\ lastCall = "reload"
    /\ jumpRun = "off"
    /\ AppMounted

NextMerge == \E f \in fetches : FetchResolve(f)

SpecMerge == InitMerge /\ [][NextMerge]_vars

\* ------------------------------------------------------------------------
\* Scripted sessions: a video of 100 s with an empty record on the server
\* and none in the cache; the viewer's events come in the order of a
\* script, wall-clock time passes where the script says so, and the
\* renders and the responses of the remote store come whenever they can.
\* ------------------------------------------------------------------------
SessionDuration == 2000

Op(op, t) == [op |-> op, t |-> t]

\* play at 0, time-updates 9 s apart up to 50, pause at 50, play at 80,
\* time-updates up to 100, pause at 100
ResumeSession ==
    << Op("play", 0),
       Op("tick", 0), Op("timeupdate", 180),
       Op("tick", 0), Op("timeupdate", 360),
       Op("tick", 0), Op("timeupdate", 540),
       Op("tick", 0), Op("timeupdate", 720),
       Op("tick", 0), Op("timeupdate", 900),
       Op("tick", 0), Op("timeupdate", 1000),
       Op("pause", 1000),
       Op("tick", 0), Op("play", 1600),
       Op("tick", 0), Op("timeupdate", 1780),
       Op("tick", 0), Op("timeupdate", 1960),
       Op("tick", 0), Op("timeupdate", 2000),
       Op("pause", 2000) >>

\* how far the session is in its script
Done == events + ticks

\* the viewer starts once the duration and the stored record are loaded
Loaded == durationSet /\ fetches = {}

\* the next step of the script
Scripted(script) ==
    /\ Done < Len(script)
    /\ Done = 0 => Loaded
    /\ LET op == script[Done + 1]
       IN  \/ op.op = "tick" /\ \E step \in ClockSteps : Tick(step)
           \/ op.op = "play" /\ HandlePlay(op.t)
           \/ op.op = "pause" /\ HandlePause(op.t)
           \/ op.op = "timeupdate" /\ OnTimeUpdate(op.t)
           \/ op.op = "timeupdate" /\ OnTimeUpdateIgnored(op.t)

InitSession ==
    /\ Init
    /\ cache = OnlyVideo1(None)
    /\ remote = OnlyVideo1([intervals |-> << >>, lastPosition |-> 0,
                            lastWatchedAt |-> 0 - 2000])

\* what the renders and the remote store do during a scripted session
SessionSteps ==
    \/ Render
    \/ LoadedMetadata(SessionDuration)
    \/ \E f \in fetches : FetchResolve(f)
    \/ \E w \in saves : SaveResolve(w)

NextResume == SessionSteps \/ Scripted(ResumeSession)

SpecResume == InitSession /\ [][NextResume]_vars

\* play at 0, time-updates 9 s apart up to 99 and one at 99.6, pause at
\* 99.6
WatchThroughSession ==
    << Op("play", 0),
       Op("tick", 0), Op("timeupdate", 180),
       Op("tick", 0), Op("timeupdate", 360),
       Op("tick", 0), Op("timeupdate", 540),
       Op("tick", 0), Op("timeupdate", 720),
       Op("tick", 0), Op("timeupdate", 900),
       Op("tick", 0), Op("timeupdate", 1080),
       Op("tick", 0), Op("timeupdate", 1260),
       Op("tick", 0), Op("timeupdate", 1440),
       Op("tick", 0), Op("timeupdate", 1620),
       Op("tick", 0), Op("timeupdate", 1800),
       Op("tick", 0), Op("timeupdate", 1980),
       Op("tick", 0), Op("timeupdate", 1992),
       Op("pause", 1992) >>

NextWatchThrough == SessionSteps \/ Scripted(WatchThroughSession)

SpecWatchThrough == InitSession /\ [][NextWatchThrough]_vars

\* play at 0, three time-updates 9 s apart, a pause: the remote store can
\* take longer than the persistence cadence to answer a write, and can
\* refuse it
WriteSession ==
    << Op("play", 0),
       Op("tick", 0), Op("timeupdate", 180),
       Op("tick", 0), Op("timeupdate", 360),
       Op("tick", 0), Op("timeupdate", 540),
       Op("pause", 540) >>

NextWrites ==
    \/ SessionSteps
    \/ \E w \in saves : SaveReject(w)
    \/ Scripted(WriteSession)

SpecWrites == InitSession /\ [][NextWrites]_vars

\* The viewer who moves the playhead and the consumer that calls
\* resetProgress, on a device whose cache holds no record yet
InitFirstVisit == Init /\ cache = OnlyVideo1(None)

SpecSeekReset == InitFirstVisit /\ [][NextSeekReset]_vars
\* ========================================================================
\* Properties
\* ========================================================================
\* the calculateProgress calls of the last step that ran the merge
Merging(c) == c.d # 0 /\ ~c.latchBefore

\* C1: once a time-update has detected a skip and no reset has happened
\* since, no percentage computation sets the completion latch, the
\* computation run by the detecting time-update included.
C1_NoLatchAfterSkip ==
    \A k \in DOMAIN calcs :
        calcs[k].flagged => ~(calcs[k].latchAfter /\ ~calcs[k].latchBefore)

\* C2: a percentage computation that finds the completion latch set returns
\* 100 whatever the interval list is, and 100 is what is then reported.
C2_LatchedReturns100 ==
    \A k \in DOMAIN calcs :
        (calcs[k].latchBefore /\ calcs[k].d # 0)
            => /\ calcs[k].ret = Pct100
               /\ k = Len(calcs) => localProgress = Pct100

\* C2 witness: a computation found the latch set while the interval list
\* did not cover the video (here: was empty)
C2_Witness ==
    /\ calcs # << >>
    /\ calcs[Len(calcs)].latchBefore
    /\ calcs[Len(calcs)].d # 0
    /\ intervals = << >>
    /\ localProgress = Pct100

\* C3: the completion latch is one-way: no step makes it false again.
C3_LatchOneWay == [][wasFullyWatched => wasFullyWatched']_vars

\* C4: every percentage calculateProgress returns, and the progress
\* reported, lies in [0, 100].
InRange(p) == PctLeq(Pct0, p) /\ PctLeq(p, Pct100)

C4_PercentageInRange ==
    /\ InRange(localProgress)
    /\ \A k \in DOMAIN calcs : InRange(calcs[k].ret)

\* C4 witness: a merge of two stored intervals gave a percentage strictly
\* between 0 and 100
C4_Witness ==
    /\ calcs # << >>
    /\ Merging(calcs[1])
    /\ Len(intervals) = 2
    /\ calcs[1].ret # Pct0
    /\ calcs[1].ret # Pct100
    /\ localProgress = calcs[1].ret

\* C5: a session made of play(0), one jump of more than 10 s to a position
\* at or beyond 99.5% of the duration, further time-updates and a pause
\* never sets the completion latch and never reports 100%.
C5_JumpToEndNotComplete ==
    jumpRun \in {"jumped", "paused"}
        => (~wasFullyWatched /\ localProgress # Pct100)

\* C6: the merged list is sorted ascending by start, its intervals are
\* disjoint, and each starts more than the merge tolerance (0.1 s) after
\* the end of the previous one.
SortedAndSeparated(m) ==
    /\ \A j \in 1..Len(m) : m[j].start <= m[j].end
    /\ \A j \in 1..(Len(m) - 1) :
          /\ m[j].start < m[j + 1].start
          /\ m[j + 1].start > m[j].end + 2

C6_MergedSortedSeparated ==
    \A k \in DOMAIN calcs : Merging(calcs[k]) => SortedAndSeparated(calcs[k].merged)

\* C6 witness: a merge of stored intervals given out of order produced two
\* separate intervals
C6_Witness ==
    /\ calcs # << >>
    /\ Merging(calcs[1])
    /\ Len(calcs[1].merged) = 2
    /\ Len(intervals) = 2
    /\ intervals[1].start > intervals[2].start

\* C7: the merge is idempotent: merging its own output gives the same list
\* and the same total watched time.
C7_MergeIdempotent ==
    \A k \in DOMAIN calcs :
        Merging(calcs[k]) =>
            LET again == MergeIntervals(calcs[k].merged, calcs[k].d)
            IN  /\ again = calcs[k].merged
                /\ TotalSpan(again) = TotalSpan(calcs[k].merged)

\* C8: the merge is order-independent: every ordering of the stored
\* intervals merges to the list and the total the hook computed.
Reorder(seq, perm) == [j \in 1..Len(seq) |-> seq[perm[j]]]

C8_MergeOrderIndependent ==
    (calcs # << >> /\ Merging(calcs[1])) =>
        \A perm \in Permutations(1..Len(intervals)) :
            LET other == MergeIntervals(Reorder(intervals, perm), calcs[1].d)
            IN  /\ other = calcs[1].merged
                /\ TotalSpan(other) = totalWatched

\* C8 witness: two valid stored intervals, the later one first, were merged
C8_Witness ==
    /\ calcs # << >>
    /\ Merging(calcs[1])
    /\ Len(intervals) = 2
    /\ IsValidInterval(intervals[1], calcs[1].d)
    /\ IsValidInterval(intervals[2], calcs[1].d)
    /\ intervals[1].start > intervals[2].start
    /\ totalWatched > 0

\* C9: of two valid intervals a, b with a.start <= b.start, b is merged into
\* a exactly when b.start <= a.end + 0.1 s, giving {a.start, max of the
\* ends}; otherwise both stay.  {0,30} and {30.05,60} give {0,60}; {0,30}
\* and {32,60} stay separate with 58 s watched.
InsideVideo(i, d) == 0 <= i.start /\ i.end <= d

C9_FoldRule ==
    (/\ calcs # << >> /\ Merging(calcs[1]) /\ Len(intervals) = 2
     /\ \A j \in 1..2 : /\ IsValidInterval(intervals[j], calcs[1].d)
                        /\ InsideVideo(intervals[j], calcs[1].d)
     /\ intervals[1].start <= intervals[2].start)
    => LET a == intervals[1]
           b == intervals[2]
       IN  IF b.start <= a.end + 2
           THEN calcs[1].merged = << Interval(a.start, Max(a.end, b.end)) >>
           ELSE calcs[1].merged = << a, b >>

C9_Examples ==
    (calcs # << >> /\ calcs[1].d = 2000) =>
        /\ intervals = << Interval(0, 600), Interval(601, 1200) >>
              => (calcs[1].merged = << Interval(0, 1200) >> /\ totalWatched = 1200)
        /\ intervals = << Interval(0, 600), Interval(640, 1200) >>
              => /\ calcs[1].merged = << Interval(0, 600), Interval(640, 1200) >>
                 /\ totalWatched = 1160

C10_SubSecondGapMerged ==
    (/\ calcs # << >> /\ Merging(calcs[1]) /\ Len(intervals) = 2
     /\ \A j \in 1..2 : /\ IsValidInterval(intervals[j], calcs[1].d)
                        /\ InsideVideo(intervals[j], calcs[1].d)
     /\ intervals[1].end <= intervals[2].start
     /\ intervals[2].start - intervals[1].end < README_MERGE_GAP)
    => Len(calcs[1].merged) = 1

\* C11: with duration 100 s and an empty record, the session play at 0,
\* time-updates up to 50, pause at 50, play at 80, time-updates up to 100,
\* pause at 100 ends with the skip flag set, merged intervals
\* [{0,50},{80,100}], 70 s watched, 70% reported and the latch unset.
C11_ResumeSessionEnds ==
    (Done = Len(ResumeSession) /\ UpToDate) =>
        /\ skippedAhead
        /\ MergeIntervals(intervals, SessionDuration)
              = << Interval(0, 1000), Interval(1600, 2000) >>
        /\ totalWatched = 1400
        /\ localProgress = Frac(70, 1)
        /\ ~wasFullyWatched

\* C12: continuous playback without a skip that covers at least 99.5% of
\* the duration (duration 100 s, play at 0, time-updates less than 10 s
\* apart up to 99.6, pause) sets the completion latch and reports 100%.
C12_WatchThroughCompletes ==
    (Done = Len(WatchThroughSession) /\ UpToDate) =>
        /\ wasFullyWatched
        /\ localProgress = Pct100

\* C13: a resetProgress call that finds the completion latch set changes
\* nothing: the interval list, the open interval, the total watched, the
\* last position, the skip flag, the reported progress and the cache are
\* what they were, and no error is set.
C13_ResetKeepsCompleted ==
    [][(lastCall' = "reset" /\ wasFullyWatched) =>
          /\ UNCHANGED << intervals, currentInterval, totalWatched,
                          lastKnownPosition, skippedAhead, localProgress,
                          cache, error, wasFullyWatched >>]_vars

\* a reset was called on a completed video that has watched intervals
C13_Witness ==
    /\ lastCall = "reset"
    /\ wasFullyWatched
    /\ intervals # << >>
    /\ lastKnownPosition > 0

\* the cache holds, for the video shown, a record with the latch set
CachedCompleted ==
    /\ cache[videoId] # None
    /\ cache[videoId] # Malformed
    /\ cache[videoId].isCompleted

\* C14: with a cached record that has the completion latch set and a
\* remote record, the mount seeds the tracker from the cached record, and
\* the response of the remote store, whatever its timestamp, leaves the
\* intervals, the last position, the latch and the reported progress as
\* they are.
C14_CompletedCacheWins ==
    [][/\ (lastCall' = "mount" /\ CachedCompleted) =>
              /\ intervals' = cache[videoId].intervals
              /\ lastKnownPosition' = cache[videoId].lastPosition
              /\ wasFullyWatched'
              /\ localProgress' = Pct100
       /\ \A f \in fetches :
              (/\ lastCall' = "fetchResolve"
               /\ fetches' = fetches \ {f}
               /\ f.hasLocal
               /\ CachedCompleted) =>
                  UNCHANGED << intervals, lastKnownPosition, wasFullyWatched,
                               localProgress, totalWatched >>]_vars

\* the remote store answered with a record that is later than the completed
\* cached record and differs from it, before any playback
C14_Witness ==
    /\ lastCall = "fetchResolve"
    /\ events = 0
    /\ CachedCompleted
    /\ remote[videoId].lastWatchedAt > cache[videoId].timestamp
    /\ remote[videoId].intervals # cache[videoId].intervals
    /\ intervals = cache[videoId].intervals
    /\ wasFullyWatched

\* the cache holds, for the video shown, a record that parses
CachedRecord == cache[videoId] # None /\ cache[videoId] # Malformed

\* the loads of the session start are over: the metadata arrived, every
\* getProgress call was answered, and nothing was played yet
LoadSettled ==
    events = 0 /\ durationSet /\ fetches = {} /\ UpToDate /\ error = None

\* the tracker holds the intervals and the last position given
SeededFrom(ints, position) ==
    intervals = ints /\ lastKnownPosition = position

\* C15: once the loads of the session start are over, a tracker that found
\* only a cached record or only a remote record holds that record's
\* intervals and last position, and one that found both, the cached one
\* with its latch unset, holds those of the record with the later
\* timestamp.
C15_SeededByRecency ==
    LoadSettled =>
        LET c == cache[videoId]
            r == remote[videoId]
        IN  /\ (CachedRecord /\ r = None) =>
                   SeededFrom(c.intervals, c.lastPosition)
            /\ (c = None /\ r # None) =>
                   SeededFrom(r.intervals, r.lastPosition)
            /\ (CachedRecord /\ r # None) =>
                   (~c.isCompleted =>
                       IF r.lastWatchedAt > c.timestamp
                       THEN SeededFrom(r.intervals, r.lastPosition)
                       ELSE SeededFrom(c.intervals, c.lastPosition))

\* C16: with a malformed cached record and a remote record, once every
\* getProgress call of the session start was answered the tracker holds
\* the intervals and the last position of the remote record.
C16_MalformedCacheIsAbsent ==
    (/\ events = 0
     /\ fetches = {}
     /\ UpToDate
     /\ cache[videoId] = Malformed
     /\ remote[videoId] # None) =>
        SeededFrom(remote[videoId].intervals, remote[videoId].lastPosition)

\* the tracker holds the empty record
EmptyTracker ==
    /\ intervals = << >>
    /\ lastKnownPosition = 0
    /\ ~skippedAhead
    /\ ~wasFullyWatched

\* C17: after the load of a mount or of a switch to another video, when
\* neither the cache nor the remote store holds a record of the video
\* shown, the tracker holds the empty record.
C17_NoRecordLoadsEmpty ==
    (/\ lastCall \in {"mount", "switch"}
     /\ cache[videoId] = None
     /\ remote[videoId] = None) => EmptyTracker

\* the step is a time-update that ran the persistence tick
PersistenceTick ==
    lastCall' = "timeupdate" /\ lastUpdateTime' # lastUpdateTime

\* C18: right after a persistence tick the cache holds a record of the
\* video shown whose intervals, last position and latch are those of the
\* tracker.
C18_CacheWrittenAtPersistenceTick ==
    [][PersistenceTick =>
          /\ cache'[videoId] # None
          /\ cache'[videoId] # Malformed
          /\ cache'[videoId].intervals = intervals'
          /\ cache'[videoId].lastPosition = lastKnownPosition'
          /\ cache'[videoId].isCompleted = wasFullyWatched']_vars

\* the steps in which a remote write or a remote fetch fails
RemoteFailures == {"saveReject", "fetchReject"}

\* the player renders the <video> element, whose events reach the tracker
ShowsVideo == rendered # None /\ rendered.error = None

\* C19: a failed remote write or fetch changes neither the interval list,
\* the open interval, the last position, the skip flag nor the latch, and
\* the render that follows it still shows the <video> element, so that
\* later play, pause and time-update events reach the tracker.
C19_FailureKeepsTracking ==
    [][/\ lastCall' \in RemoteFailures =>
              UNCHANGED << intervals, currentInterval, lastKnownPosition,
                           skippedAhead, wasFullyWatched >>
       /\ (lastCall \in RemoteFailures /\ rendered' # rendered) =>
              ShowsVideo']_vars

\* the step dispatches a remote write
WriteDispatched == \E w \in saves' : w \notin saves

\* C20: a remote write is dispatched only by a time-update that finds the
\* tracker playing, a non-zero duration and at least the persistence
\* cadence elapsed since the last persistence tick: never by play, pause,
\* reset, a tick of the UI cadence alone, or a paused tracker.
C20_WriteOnlyAtPersistenceCadence ==
    [][WriteDispatched =>
          /\ lastCall' = "timeupdate"
          /\ isPlaying
          /\ rendered.duration # 0
          /\ now - lastUpdateTime >= PROGRESS_UPDATE_INTERVAL]_vars

\* a time-update has just dispatched a remote write
C20_Witness ==
    /\ lastCall = "timeupdate"
    /\ saves # {}
    /\ lastUpdateTime = now
    /\ isPlaying

\* the tracker holds an open interval that spans at least the minimum
\* watch time
OpenTail ==
    /\ currentInterval # None
    /\ Span(currentInterval) >= MINIMUM_WATCH_TIME

\* C21: when the player switches to another video while an open interval
\* of at least 1 s exists, the cache record of the video being left holds
\* that interval after the switch.
C21_SwitchKeepsTail ==
    [][(lastCall' = "switch" /\ OpenTail) =>
          /\ cache'[rendered.videoId] # None
          /\ cache'[rendered.videoId] # Malformed
          /\ \E i \in DOMAIN cache'[rendered.videoId].intervals :
                 cache'[rendered.videoId].intervals[i] = currentInterval]_vars

\* the calls the playback surface makes into the tracker
PlaybackEvents == {"play", "pause", "timeupdate"}

\* the closures of the last render hold no valid duration
NoDuration == rendered # None /\ rendered.duration = 0

\* C22: while the duration is zero the reported percentage is 0, and no
\* play, pause or time-update sets the skip flag or the completion latch.
C22_ZeroDurationReportsZero ==
    [][/\ (UpToDate' /\ NoDuration') => localProgress' = Pct0
       /\ (NoDuration /\ lastCall' \in PlaybackEvents) =>
              /\ skippedAhead' => skippedAhead
              /\ wasFullyWatched' => wasFullyWatched]_vars

\* C23: every record written to the cache, by a render that knows the
\* duration, has a totalWatched equal to the sum of the spans of the merged
\* form of the intervals it stores.
C23_CachedTotalIsMergedSum ==
    [][\A v \in Videos :
          (cache'[v] # cache[v] /\ rendered # None /\ rendered.duration # 0) =>
              cache'[v].totalWatched =
                  TotalSpan(MergeIntervals(cache'[v].intervals,
                                           rendered.duration))]_vars

\* C24: handlePlay(t) resets the tracker exactly when t = 0, the last
\* known position is positive and the latch is unset: then the interval
\* list is empty, the last position 0, the skip flag unset and the cache
\* holds the empty record; otherwise none of them changes.  In both cases
\* the open interval is {t, t} afterwards and the tracker is playing.
C24_PlayResetsAtStart ==
    [][lastCall' = "play" =>
          LET t == currentTime'
              startsOver == t = 0 /\ lastKnownPosition > 0 /\ ~wasFullyWatched
              key == rendered.videoId
          IN  /\ currentInterval' = Interval(t, t)
              /\ isPlaying'
              /\ startsOver =>
                     /\ intervals' = << >>
                     /\ lastKnownPosition' = 0
                     /\ ~skippedAhead'
                     /\ cache'[key] # None /\ cache'[key] # Malformed
                     /\ cache'[key].intervals = << >>
                     /\ cache'[key].lastPosition = 0
                     /\ cache'[key].totalWatched = 0
                     /\ ~cache'[key].isCompleted
              /\ ~startsOver =>
                     UNCHANGED << intervals, lastKnownPosition, skippedAhead,
                                  cache >>]_vars

\* the first event of the session was a play at 0 that reset a tracker
\* seeded with a positive last position
C24_Witness ==
    /\ lastCall = "play"
    /\ events = 1
    /\ currentInterval = Interval(0, 0)
    /\ isPlaying
    /\ intervals = << >>
    /\ cache[videoId] # None /\ cache[videoId] # Malformed
    /\ cache[videoId].intervals = << >>
    /\ cache[videoId].timestamp = now

C26_PauseRecordsLongIntervals ==
    [][lastCall' = "pause" =>
          LET t == currentTime'
              long == /\ currentInterval # None
                      /\ t - currentInterval.start >= MINIMUM_WATCH_TIME
              key == rendered.videoId
          IN  /\ currentInterval' = None
              /\ ~isPlaying'
              /\ long =>
                     /\ intervals' = Append(intervals,
                                            Interval(currentInterval.start, t))
                     /\ Len(calcs') = 1
                     /\ calcs'[1].d = rendered.duration
                     /\ localProgress' = calcs'[1].ret
                     /\ cache'[key] # None /\ cache'[key] # Malformed
                     /\ cache'[key].intervals = intervals'
                     /\ cache'[key].timestamp = now
              /\ ~long =>
                     UNCHANGED << intervals, localProgress, cache >>]_vars

\* a play at 0 s and a pause at 10 s recorded {0, 10}
C26_Witness ==
    /\ lastCall = "pause"
    /\ events = 2
    /\ currentInterval = None
    /\ ~isPlaying
    /\ intervals # << >>
    /\ intervals[Len(intervals)] = Interval(0, 200)
    /\ cache[videoId] # None /\ cache[videoId] # Malformed
    /\ cache[videoId].intervals = intervals

\* the calls the playback surface makes when the viewer moves the playhead
SeekEvents == {"seeking", "seeked"}

\* C27: a seek does not stop tracking: the seek-start handler, the
\* seek-end handler and the re-renders they cause leave a playing tracker
\* playing, with an open interval.
C27_SeekKeepsPlaying ==
    [][(/\ isPlaying
        /\ \/ lastCall' \in SeekEvents
           \/ lastCall \in SeekEvents /\ rendered' # rendered) =>
          /\ isPlaying'
          /\ currentInterval' # None]_vars

\* C28: a persistence tick at t appends an open interval that spans at
\* least 1 s and opens {t, t}; it leaves a shorter open interval open,
\* with its start unchanged.  (After a skip in the same call the open
\* interval is the fresh {t, t}, which is short.)
C28_TickClosesLongIntervals ==
    [][PersistenceTick =>
          LET t == currentTime'
              skip == Abs(t - lastKnownPosition) > SKIP_THRESHOLD
              start == IF currentInterval # None
                       THEN currentInterval.start ELSE t
              open == IF skip THEN Interval(t, t) ELSE Interval(start, t)
              before == IF skip THEN Append(intervals, Interval(start, t))
                        ELSE intervals
          IN  IF open.end - open.start >= MINIMUM_WATCH_TIME
              THEN /\ intervals' = Append(before, open)
                   /\ currentInterval' = Interval(t, t)
              ELSE /\ intervals' = before
                   /\ currentInterval' = open]_vars

\* a persistence tick at 10 s has closed the open interval {0, 10}
C28_Witness ==
    /\ lastCall = "timeupdate"
    /\ events = 2
    /\ lastUpdateTime = now
    /\ now >= PROGRESS_UPDATE_INTERVAL
    /\ ~skippedAhead
    /\ currentInterval = Interval(200, 200)
    /\ intervals # << >>
    /\ intervals[Len(intervals)] = Interval(0, 200)

C30_WriteCarriesClosedInterval ==
    [][PersistenceTick =>
          LET t == currentTime'
              skip == Abs(t - lastKnownPosition) > SKIP_THRESHOLD
              start == IF currentInterval # None
                       THEN currentInterval.start ELSE t
          IN  (~skip /\ t - start >= MINIMUM_WATCH_TIME) =>
                  /\ intervals' = Append(intervals, Interval(start, t))
                  /\ \E w \in saves' :
                         w \notin saves /\ w.interval = Interval(start, t)]_vars

\* the steps in which the remote store answers a write
WriteAnswers == {"saveResolve", "saveReject"}

\* C31: the playback path never waits for a remote write.  The time-update
\* that dispatches a write has set the persistence timestamp and the last
\* known position when it returns, with the write still in flight; a
\* dispatch leaves the writes already in flight in flight; a play, pause
\* or time-update that comes while writes are in flight is processed as
\* usual and leaves them in flight; and only an answer of the remote store
\* ends a write.
C31_PlaybackNeverWaits ==
    [][/\ WriteDispatched =>
              /\ lastUpdateTime' = now
              /\ lastKnownPosition' = currentTime'
              /\ saves \subseteq saves'
       /\ (lastCall' \in PlaybackEvents /\ saves # {}) =>
              /\ saves \subseteq saves'
              /\ events' = events + 1
              /\ lastCall' = "pause" => (~isPlaying' /\ currentInterval' = None)
              /\ (lastCall' = "timeupdate" /\ isPlaying) =>
                     (lastKnownPosition' = currentTime'
                      /\ currentInterval'.end = currentTime')
       /\ ~(saves \subseteq saves') => lastCall' \in WriteAnswers]_vars

\* a time-update has dispatched a second remote write while the first one
\* is still in flight
C31_Witness ==
    /\ lastCall = "timeupdate"
    /\ Cardinality(saves) = 2
    /\ lastUpdateTime = now
    /\ lastKnownPosition = currentTime
    /\ \E w \in saves : w.lastPosition = currentTime
    /\ \E w \in saves : w.lastPosition < currentTime

\* the list after extends the list before
Extends(after, before) ==
    /\ Len(after) >= Len(before)
    /\ SubSeq(after, 1, Len(before)) = before

\* the steps that run a handler of the tracker: the playback events, the
\* end of a seek, and the renders, whose cleanup calls handlePause
HandlerSteps == PlaybackEvents \cup {"seeked", "render", "reload"}

\* the tracker is playing, knows the duration and holds watched intervals
Tracking ==
    /\ isPlaying
    /\ rendered # None /\ rendered.duration # 0
    /\ intervals # << >>

\* C32: while the tracker is playing one video and holds watched
\* intervals, the interval list changes only by appends made in steps that
\* run an event handler, or by a reset that empties it with the latch
\* unset; the load that a render re-runs and the answer to a remote fetch
\* leave it as it is.
C32_IntervalsOnlyAppended ==
    [][(Tracking /\ intervals' # intervals) =>
          \/ lastCall' \in HandlerSteps /\ Extends(intervals', intervals)
          \/ /\ lastCall' \in {"play", "reset"}
             /\ ~wasFullyWatched
             /\ intervals' = << >>]_vars

\* the step is a time-update, processed by the tracker, that moves the
\* position forward by more than the skip threshold
ForwardSkip ==
    /\ lastCall' = "timeupdate"
    /\ isPlaying
    /\ rendered.duration # 0
    /\ currentTime' - lastKnownPosition > SKIP_THRESHOLD

\* C33: the interval that a time-update appends when it detects a forward
\* skip from the last known position p to t ends at or before p: it does
\* not cover the video time between p and t.
C33_JumpNotCounted ==
    [][ForwardSkip =>
          /\ Len(intervals') > Len(intervals)
          /\ intervals'[Len(intervals) + 1].end <= lastKnownPosition]_vars

\* the four reasons for which the filter of calculateProgress drops an
\* interval
Discarded(i, d) ==
    \/ i.end <= i.start
    \/ i.start >= d
    \/ i.end - i.start < MINIMUM_WATCH_TIME
    \/ i.end - i.start > d

\* the list without its j-th interval
Without(ints, j) == SubSeq(ints, 1, j - 1) \o SubSeq(ints, j + 1, Len(ints))

\* the interval i cut to the video [0, d]
Within(i, d) ==
    Interval(IF i.start < 0 THEN 0 ELSE i.start, IF i.end > d THEN d ELSE i.end)

\* C34: an interval that is invalid for the duration (end <= start, start
\* at or beyond the duration, span below 1 s, span larger than the
\* duration) contributes nothing: the merged list and the total watched
\* are what they are without it, and every merged interval starts where a
\* valid interval starts and ends where a valid interval, cut to
\* [0, duration], ends.  The merged intervals lie in [0, duration], and
\* each valid interval, cut to [0, duration], lies in one of them.
C34_InvalidIntervalsDiscarded ==
    (calcs # << >> /\ Merging(calcs[1])) =>
        LET d == calcs[1].d
            m == calcs[1].merged
            kept == { j \in DOMAIN intervals : ~Discarded(intervals[j], d) }
        IN  /\ \A j \in DOMAIN intervals :
                   Discarded(intervals[j], d) =>
                       /\ MergeIntervals(Without(intervals, j), d) = m
                       /\ TotalSpan(MergeIntervals(Without(intervals, j), d))
                              = totalWatched
            /\ kept = {} => (m = << >> /\ totalWatched = 0)
            /\ \A k \in DOMAIN m :
                   /\ 0 <= m[k].start /\ m[k].end <= d
                   /\ \E j \in kept : m[k].start = Within(intervals[j], d).start
                   /\ \E j \in kept : m[k].end = Within(intervals[j], d).end
            /\ \A j \in kept :
                   \E k \in DOMAIN m :
                       /\ m[k].start <= Within(intervals[j], d).start
                       /\ Within(intervals[j], d).end <= m[k].end
            /\ totalWatched = TotalSpan(m)

\* with a duration of 31 s, the stored {0, 60} was discarded and the
\* stored {30, 32} was counted as {30, 31}
C34_Witness ==
    /\ calcs # << >>
    /\ Merging(calcs[1])
    /\ calcs[1].d = 620
    /\ intervals = << Interval(0, 1200), Interval(600, 640) >>
    /\ calcs[1].merged = << Interval(600, 620) >>
    /\ totalWatched = 20

\* the step runs resetProgress, called by the consumer or by a play at 0
\* that finds a positive last position, and the reset is not refused
ResetGoesThrough ==
    /\ ~wasFullyWatched
    /\ \/ lastCall' = "reset"
       \/ lastCall' = "play" /\ currentTime' = 0 /\ lastKnownPosition > 0

\* C35 as stated: the skip flag, once set, stays set through every play,
\* pause, time-update and seek event, and only a reset call that is not
\* refused clears it.
C35_SkipFlagSticky ==
    [][(skippedAhead /\ ~skippedAhead') =>
          (lastCall' = "reset" /\ ~wasFullyWatched)]_vars

\* C35 amended: the skip flag, once set, stays set through every pause,
\* time-update and seek event, through every render and answer of the
\* remote store, and through every play that does not start over; it is
\* cleared exactly by the resets that are not refused: a resetProgress
\* call with the latch unset, from the consumer or from a play at 0 that
\* finds a positive last position.
C35_SkipFlagClearedByReset ==
    [][skippedAhead => (skippedAhead' <=> ~ResetGoesThrough)]_vars

\* a play at 0 has cleared the skip flag that a time-update had set
C35_Witness ==
    /\ lastCall = "play"
    /\ events = 3
    /\ currentTime = 0
    /\ ~skippedAhead
    /\ rendered # None /\ rendered.skippedAhead
    /\ intervals = << >>
    /\ currentInterval = Interval(0, 0)

\* C36: the second call that the element makes for one play, pause or
\* time-update, with the same time, changes nothing in the tracker: the
\* interval list, the open interval, the last position, the skip flag, the
\* latch, the totals, the reported progress, the two timestamps and the
\* cache are those the first call left, and no remote write is dispatched.
C36_SecondDeliveryChangesNothing ==
    [][lastCall' = "again" =>
          UNCHANGED << intervals, currentInterval, lastKnownPosition,
                       skippedAhead, wasFullyWatched, isCompleted, isPlaying,
                       totalWatched, localProgress, lastUpdateTime,
                       lastUIUpdateTime, error, cache, saves >>]_vars

\* the second call of a time-update that had detected a skip, run its
\* persistence tick and dispatched a remote write
C36_Witness ==
    /\ lastCall = "again"
    /\ isPlaying
    /\ skippedAhead
    /\ lastKnownPosition = currentTime
    /\ lastUpdateTime = now
    /\ now >= PROGRESS_UPDATE_INTERVAL
    /\ Cardinality(saves) = 1
    /\ intervals # << >>

\* ------------------------------------------------------------------------
\* C37: a genuine completion is not undone by the App's artificial-100 guard:
\* whenever the player reports progress 100 and completed, with the latch set
\* and no skip detected (after viewing or after loading a completed cached
\* record), the list entry and the stored summary of the video are left as
\* progress 100 and completed
\* ------------------------------------------------------------------------
ReportsGenuineCompletion ==
    /\ lastCall' = "report"
    /\ duration > 0
    /\ localProgress = Pct100
    /\ isCompleted
    /\ wasFullyWatched
    /\ ~skippedAhead

C37_GenuineCompletionKept ==
    [][ReportsGenuineCompletion =>
          /\ videos'[videoId] = Entry(Pct100, TRUE)
          /\ storedProgress'[videoId] = Entry(Pct100, TRUE)]_vars

\* ------------------------------------------------------------------------
\* C38: progress reporting quiesces: once the player has reported with a
\* valid duration, the chain report, App state update, render, report
\* reaches a state from which no further report is due
\* ------------------------------------------------------------------------
ReportedWithDuration == lastCall = "report" /\ duration > 0

C38_ReportingQuiesces == ReportedWithDuration ~> [](~EffectDue)

====
